---- MODULE Spec2Model ----
(***************************************************************************)
(* Model of the movie-api scraping pipeline (src/main.py).                 *)
(*                                                                         *)
(* One HTTP request to one of the four endpoints is followed from its      *)
(* first upstream fetch to its response.  Every `await client.get(...)`    *)
(* is a pair of actions (the fetch starts, the fetch completes); what the  *)
(* handler computes between two awaits is part of the completing action.   *)
(* Upstream pages are inputs, drawn when a fetch completes.                *)
(*                                                                         *)
(* Text is modelled as follows.  Quality / size / language cell texts are  *)
(* sequences of one-character strings, so that parse_quality, strip() and  *)
(* the bracket regular expressions are computed.  URLs are sequences of    *)
(* path segments whose first element is the host; the empty string is      *)
(* <<>>.  Other texts (titles, years, provider names) are opaque strings.  *)
(***************************************************************************)
EXTENDS Integers, Sequences, FiniteSets, TLC

VARIABLES
    endpoint,        \* which route handles the request
    pc,              \* position of the request's coroutine
    inflight,        \* number of upstream fetches started and not completed
    fetchLog,        \* history: the fetches started, in order
    search_soup,     \* search_movies: the `.result-item` containers of the listing page
    search_raised,   \* history: search_movies raised
    search_results,  \* search_and_get_all_links: search_results
    idx,             \* search_and_get_all_links: position of `movie` in the loop
    final_results,   \* search_and_get_all_links: final_results
    outcomes,        \* history: what became of each movie of search_results
    detail_soup,     \* get_download_links: the parsed movie page
    best_link,       \* get_download_links: best_link / download_page_url
    selected_block,  \* get_download_links: selected_block_html (<<>> is "")
    consulted,       \* get_download_links: the body of `if not best_link:` (line 89) ran
    final_page_url,  \* search_and_get_all_links: final_page_url (<<>>: not set)
    final_soup,      \* get_final_download_links: the parsed final page
    last_fetch_ok,   \* history: the fetch completed last delivered a 2xx page
    response         \* the HTTP response of the request (status 0: none yet)

vars == <<endpoint, pc, inflight, fetchLog, search_soup, search_raised, search_results, idx, final_results,
          outcomes, detail_soup, best_link, selected_block, consulted,
          final_page_url, final_soup, last_fetch_ok, response>>

-----------------------------------------------------------------------------
(* Bounds of the inputs.                                                   *)

MaxItems == 2
MaxMovies == 3
MaxRows == 2
MaxBody == 1
MaxSections == 3

-----------------------------------------------------------------------------
(* Generic helpers.                                                        *)

None == "<none>"

Min(S) == CHOOSE x \in S : \A y \in S : x <= y

SeqsUpTo(S, n) == UNION {[1..k -> S] : k \in 0..n}

DigitVal == [c \in {"0", "1", "2", "3", "4", "5", "6", "7", "8", "9"} |->
               CASE c = "0" -> 0 [] c = "1" -> 1 [] c = "2" -> 2 [] c = "3" -> 3
                 [] c = "4" -> 4 [] c = "5" -> 5 [] c = "6" -> 6 [] c = "7" -> 7
                 [] c = "8" -> 8 [] c = "9" -> 9]

IsDigit(c) == c \in DOMAIN DigitVal

IsSpace(c) == c = " "

\* str.strip(): leading and trailing whitespace removed
RECURSIVE LStrip(_)
LStrip(s) == IF s # <<>> /\ IsSpace(Head(s)) THEN LStrip(Tail(s)) ELSE s

RECURSIVE RStrip(_)
RStrip(s) ==
    IF s # <<>> /\ IsSpace(s[Len(s)]) THEN RStrip(SubSeq(s, 1, Len(s) - 1)) ELSE s

Strip(s) == RStrip(LStrip(s))

\* the longest prefix of s free of the characters of stop: a regex class [^...]+
RECURSIVE TakeUntil(_, _)
TakeUntil(s, stop) ==
    IF s = <<>> \/ Head(s) \in stop THEN <<>>
    ELSE <<Head(s)>> \o TakeUntil(Tail(s), stop)

-----------------------------------------------------------------------------
(* Exceptions and the blanket handlers.                                    *)

Exc(type, status, detail) == [type |-> type, status_code |-> status, detail |-> detail]

HTTPException(status, detail) == Exc("HTTPException", status, detail)

Raised(e) == [raised |-> TRUE, exc |-> e, value |-> <<>>]

Returned(v) == [raised |-> FALSE, exc |-> Exc("none", 0, "none"), value |-> v]

\* `except Exception as e: raise HTTPException(status_code=500, detail=str(e))`
\* HTTPException is itself an Exception: a 404 raised inside the try block is
\* caught here as well and leaves the handler as a 500.
ExceptException(e) == HTTPException(500, e.detail)

\* FastAPI turns an HTTPException leaving a route into a response
ErrorResponse(e) == [status |-> e.status_code, body |-> [detail |-> e.detail]]

-----------------------------------------------------------------------------
(* parse_quality                                                           *)

RECURSIVE ReadInt(_, _)
ReadInt(s, acc) ==
    IF s # <<>> /\ IsDigit(Head(s)) THEN ReadInt(Tail(s), 10 * acc + DigitVal[Head(s)])
    ELSE acc

\* re.search(r'(\d+)', s): the leftmost maximal run of digits
parse_quality(quality_str) ==
    IF quality_str = <<>> THEN 0
    ELSE IF \E i \in 1..Len(quality_str) : IsDigit(quality_str[i])
         THEN LET first == Min({i \in 1..Len(quality_str) : IsDigit(quality_str[i])})
              IN  ReadInt(SubSeq(quality_str, first, Len(quality_str)), 0)
         ELSE 0

-----------------------------------------------------------------------------
(* Upstream responses.  A fetch fails (connection error, or a non-2xx      *)
(* status at raise_for_status) or delivers a page.                         *)

FetchFailed == [ok |-> FALSE, page |-> <<>>]

Fetched(page) == [ok |-> TRUE, page |-> page]

HTTPStatusError == Exc("HTTPStatusError", 0, "upstream fetch failed")

-----------------------------------------------------------------------------
(* search_movies                                                           *)

MovieUrl(i) == <<"movielinkhub.fun", "movie", ToString(i)>>

\* A `.result-item` container.  anchor: "none" (no `.title a`), "nohref" (an
\* anchor without href attribute) or "href"; year, type, desc: the element's
\* text, or None when the container has no such element; img: "none", "nosrc"
\* (an <img> without src attribute) or "src".
MkItem(i, anchor, href, year, type, desc, img) ==
    [anchor |-> anchor, title |-> "Title " \o ToString(i), href |-> href,
     year |-> year, type |-> type, desc |-> desc, img |-> img,
     src |-> "thumb" \o ToString(i) \o ".jpg"]

FullItem(i, anchor, href) == MkItem(i, anchor, href, "2010", "Movie", "A plot.", "src")

ItemsAt(i) ==
    {FullItem(i, "none", <<>>), FullItem(i, "nohref", <<>>),
     FullItem(i, "href", <<>>), FullItem(i, "href", MovieUrl(i)),
     MkItem(i, "href", MovieUrl(i), None, "Movie", "A plot.", "src"),
     MkItem(i, "href", MovieUrl(i), "2010", None, "A plot.", "src"),
     MkItem(i, "href", MovieUrl(i), "2010", "Movie", None, "src"),
     MkItem(i, "href", MovieUrl(i), "2010", "Movie", "A plot.", "none"),
     MkItem(i, "href", MovieUrl(i), None, None, None, "none"),
     MkItem(i, "href", MovieUrl(i), "2010", "Movie", "A plot.", "nosrc")}

\* the containers of the listing pages seen by the combined endpoint, to which
\* only the results, their URLs and a failure of the search matter
SrcItemsAt(i) ==
    {FullItem(i, "none", <<>>), FullItem(i, "href", <<>>), FullItem(i, "href", MovieUrl(i)),
     MkItem(i, "href", MovieUrl(i), "2010", "Movie", "A plot.", "nosrc")}

\* the sequences of at most n elements whose i-th element is drawn from at[i]
PagesOf(at, n) ==
    UNION {{p \in [1..k -> UNION {at[i] : i \in 1..k}] :
                \A i \in 1..k : p[i] \in at[i]} : k \in 0..n}

SearchResponses ==
    {FetchFailed} \cup
    {Fetched(p) : p \in IF endpoint = "src" THEN PagesOf([i \in 1..MaxMovies |-> SrcItemsAt(i)], MaxMovies)
                        ELSE PagesOf([i \in 1..MaxItems |-> ItemsAt(i)], MaxItems)}

\* lines 36-43: the dict built for one container that has a title anchor
ResultOf(item) ==
    [title |-> item.title,
     url |-> item.href,
     year |-> IF item.year # None THEN item.year ELSE "N/A",
     type |-> IF item.type # None THEN item.type ELSE "Unknown",
     description |-> IF item.desc # None THEN item.desc ELSE "",
     thumbnail |-> IF item.img # "none" THEN item.src ELSE ""]

\* title_tag['href'] and item.select_one('img')['src'] raise KeyError when the
\* attribute is missing
ItemRaises(item) ==
    /\ item.anchor # "none"
    /\ item.anchor = "nohref" \/ item.img = "nosrc"

RECURSIVE ResultsOf(_)
ResultsOf(items) ==
    IF items = <<>> THEN <<>>
    ELSE IF Head(items).anchor = "none" THEN ResultsOf(Tail(items))
         ELSE <<ResultOf(Head(items))>> \o ResultsOf(Tail(items))

search_movies(resp) ==
    IF ~resp.ok THEN Raised(ExceptException(HTTPStatusError))
    ELSE IF \E i \in 1..Len(resp.page) : ItemRaises(resp.page[i])
         THEN Raised(ExceptException(Exc("KeyError", 0, "missing attribute")))
         ELSE Returned([results |-> ResultsOf(resp.page)])

-----------------------------------------------------------------------------
(* get_download_links: the movie page                                      *)

L1080 == <<"1", "0", "8", "0", "p">>
L720 == <<" ", "7", "2", "0", "p">>
L4K == <<"4", "K", " ", "2", "1", "6", "0", "p">>
LHD == <<"H", "D">>
Labels == {<<>>, LHD, L4K, L720, L1080}

SizeCell == <<"[", "1", ".", "2", "G", "B", " ", "]">>
LangCell == <<"(", "H", "i", "n", "d", "i", ")">>

LinkHref(i) == <<"movielinkhub.fun", "links", ToString(i)>>
WatchHref(i) == <<"movielinkhub.fun", "watch", ToString(i)>>

\* A `tr[id^='link-']` row: qua, siz, lan are the raw texts of its `.qua`,
\* `.siz` and `.lan` cells (<<>>: no such cell), href is the href of its
\* anchor (<<>>: no anchor).
MkRow(qua, href, siz, lan) == [qua |-> qua, href |-> href, siz |-> siz, lan |-> lan]

RowsAt(i) ==
    {MkRow(q, <<>>, SizeCell, LangCell) : q \in Labels}
    \cup {MkRow(L1080, WatchHref(i), SizeCell, LangCell)}
    \cup {MkRow(q, LinkHref(i), SizeCell, LangCell) : q \in Labels}
    \cup {MkRow(L1080, LinkHref(i), SizeCell, <<>>),
          MkRow(L1080, LinkHref(i), <<>>, LangCell),
          MkRow(L1080, LinkHref(i), <<>>, <<>>)}

SrcRowsAt(i) ==
    {MkRow(L720, <<>>, SizeCell, LangCell), MkRow(L1080, LinkHref(i), SizeCell, LangCell)}

\* The `button.downbtn` part of the page: button (is there one), parent
\* ("none": no enclosing <a>, "nohref": one without href, "href"), href.
ButtonHref == <<"movielinkhub.fun", "download", "x">>
NoButton == [button |-> FALSE, parent |-> "none", href |-> <<>>]
Buttons ==
    {NoButton,
     [button |-> TRUE, parent |-> "none", href |-> <<>>],
     [button |-> TRUE, parent |-> "nohref", href |-> <<>>],
     [button |-> TRUE, parent |-> "href", href |-> ButtonHref]}

DetailPages ==
    IF endpoint = "src"
    THEN {[rows |-> r, fallback |-> b] :
             r \in PagesOf([i \in 1..1 |-> SrcRowsAt(i)], 1), b \in {NoButton}}
    ELSE {[rows |-> r, fallback |-> b] : r \in PagesOf([i \in 1..MaxRows |-> RowsAt(i)], MaxRows), b \in Buttons}

DetailResponses == {FetchFailed} \cup {Fetched(p) : p \in DetailPages}

\* block.select_one('.qua').get_text(strip=True), "" without a `.qua` cell
QualityText(block) == Strip(block.qua)

\* an href containing the substring '/links/'
ContainsLinks(href) == \E k \in 2..(Len(href) - 1) : href[k] = "links"

\* block.select_one("a[href*='/links/']") finds an anchor
HasLinkTag(block) == ContainsLinks(block.href)

\* line 81: `if current_quality > max_quality`
IsBetterOrEqual(current_quality, max_quality) == current_quality >= max_quality

IsBetter(current_quality, max_quality) == current_quality > max_quality

NoCandidate == [best_link |-> <<>>, max_quality |-> -1, selected_block |-> <<>>]

\* lines 77-86: the body of the loop over download_blocks
SelectStep(st, block) ==
    LET current_quality == parse_quality(QualityText(block))
    IN  IF IsBetter(current_quality, st.max_quality) /\ HasLinkTag(block)
        THEN [best_link |-> block.href, max_quality |-> current_quality,
              selected_block |-> <<block>>]
        ELSE st

RECURSIVE SelectLoop(_, _)
SelectLoop(st, blocks) ==
    IF blocks = <<>> THEN st ELSE SelectLoop(SelectStep(st, Head(blocks)), Tail(blocks))

\* lines 89-94: the fallback; yields the link it finds, <<>> if none
FallbackLink(best, fb) ==
    IF best = <<>> /\ fb.button /\ fb.parent = "href" THEN fb.href ELSE best

\* lines 66-97: from the response of the movie page to download_page_url
select_link(resp) ==
    IF ~resp.ok THEN Raised(ExceptException(HTTPStatusError))
    ELSE LET st == SelectLoop(NoCandidate, resp.page.rows)
             link == FallbackLink(st.best_link, resp.page.fallback)
         IN  IF link = <<>>
             THEN Raised(ExceptException(
                      HTTPException(404, "Download link not found on the page.")))
             ELSE Returned([best_link |-> link,
                            selected_block |-> st.selected_block,
                            consulted |-> st.best_link = <<>>])

-----------------------------------------------------------------------------
(* get_download_links: the intermediate page                               *)

FinalUrl(k) == <<"linkedmoviehub.top", "file", k>>
OtherUrl == <<"example.com", "ads">>
BodyTokens == {OtherUrl, FinalUrl("a"), FinalUrl("b")}

InterBodies ==
    IF endpoint = "src" THEN {<<>>, <<FinalUrl("a")>>} ELSE SeqsUpTo(BodyTokens, MaxBody)

InterResponses == {FetchFailed} \cup {Fetched(b) : b \in InterBodies}

\* https?://linkedmoviehub\.top[^\s'"]+
MatchesFinalHost(tok) == Len(tok) > 1 /\ tok[1] = "linkedmoviehub.top"

\* the regexes of lines 120-122 on the markup of the selected row
QuaMatch(block) == TakeUntil(block.qua, {"<"})
SizMatch(block) ==
    IF block.siz # <<>> /\ Head(block.siz) = "[" THEN TakeUntil(Tail(block.siz), {"]"})
    ELSE <<>>
LanMatch(block) ==
    IF block.lan # <<>> /\ Head(block.lan) = "(" THEN TakeUntil(Tail(block.lan), {")"})
    ELSE <<>>

Unknown == <<"U", "n", "k", "n", "o", "w", "n">>

UnknownInfo == [quality |-> Unknown, size |-> Unknown, language |-> Unknown]

\* lines 113-129
QualityInfoCoupled(sel) ==
    IF sel = <<>> \/ QuaMatch(sel[1]) = <<>> \/ SizMatch(sel[1]) = <<>>
       \/ LanMatch(sel[1]) = <<>>
    THEN UnknownInfo
    ELSE [quality |-> Strip(QuaMatch(sel[1])), size |-> Strip(SizMatch(sel[1])),
          language |-> Strip(LanMatch(sel[1]))]

QualityInfo(sel) ==
    IF sel = <<>> THEN UnknownInfo
    ELSE [quality |-> IF QuaMatch(sel[1]) # <<>> THEN Strip(QuaMatch(sel[1])) ELSE Unknown,
          size |-> IF SizMatch(sel[1]) # <<>> THEN Strip(SizMatch(sel[1])) ELSE Unknown,
          language |-> IF LanMatch(sel[1]) # <<>> THEN Strip(LanMatch(sel[1])) ELSE Unknown]

\* lines 102-135: from the response of the intermediate page to the result
resolve_final(resp, link, sel) ==
    IF ~resp.ok THEN Raised(ExceptException(HTTPStatusError))
    ELSE IF ~\E k \in 1..Len(resp.page) : MatchesFinalHost(resp.page[k])
         THEN Raised(ExceptException(HTTPException(404,
                  "Final download page URL not found on intermediate page.")))
         ELSE LET first == Min({k \in 1..Len(resp.page) : MatchesFinalHost(resp.page[k])})
              IN  Returned([intermediate_page_url |-> link,
                            final_page_url |-> resp.page[first],
                            selected_quality_info |-> QualityInfo(sel)])

-----------------------------------------------------------------------------
(* get_final_download_links                                                *)

DownBtn(k) == [provider |-> "Host " \o k, hasHref |-> TRUE, href |-> <<"cdn.example", "get", k>>]
BtnNoHref == [provider |-> "Host z", hasHref |-> FALSE, href |-> <<>>]

\* A `div.quality` and what follows it up to the next one: h2 is the text of
\* its <h2> (None: it has none), hasCenter says whether a <center> follows
\* before the next `div.quality`, buttons are that center's `a.down-btn`s.
MkSection(h2, hasCenter, buttons) == [h2 |-> h2, hasCenter |-> hasCenter, buttons |-> buttons]

CenterButtons == {<<>>, <<DownBtn("a")>>, <<DownBtn("a"), DownBtn("b")>>, <<BtnNoHref>>}

Sections ==
    {MkSection(q, TRUE, b) : q \in {"1080p", "720p"}, b \in CenterButtons}
    \cup {MkSection(q, FALSE, <<>>) : q \in {"1080p", "720p"}}
    \cup {MkSection(None, TRUE, <<DownBtn("a")>>)}

SrcSections ==
    {MkSection("1080p", TRUE, b) : b \in {<<>>, <<DownBtn("a")>>, <<DownBtn("a"), DownBtn("b")>>}}

FinalPages ==
    IF endpoint = "src" THEN SeqsUpTo(SrcSections, 1) ELSE SeqsUpTo(Sections, MaxSections)

FinalResponses == {FetchFailed} \cup {Fetched(p) : p \in FinalPages}

\* quality_div.find_next('center'): the first <center> after the div in
\* document order, whichever section it belongs to; 0 when there is none
FindNextCenter(page, i) ==
    IF \E j \in i..Len(page) : page[j].hasCenter
    THEN Min({j \in i..Len(page) : page[j].hasCenter})
    ELSE 0

\* lines 159-166: the list built from the buttons of one center
RECURSIVE LinksOf(_)
LinksOf(buttons) ==
    IF buttons = <<>> THEN <<>>
    ELSE <<[provider |-> Head(buttons).provider, url |-> Head(buttons).href]>>
         \o LinksOf(Tail(buttons))

\* A Python dict: the entries in insertion order.  d[k] = v replaces the
\* value of a key already present, in place, and appends a new key.
DictSetMerging(d, k, v) ==
    IF \E i \in 1..Len(d) : d[i].key = k
    THEN [i \in 1..Len(d) |-> IF d[i].key = k
                              THEN [key |-> k, value |-> d[i].value \o v] ELSE d[i]]
    ELSE Append(d, [key |-> k, value |-> v])

DictSet(d, k, v) ==
    IF \E i \in 1..Len(d) : d[i].key = k
    THEN [i \in 1..Len(d) |-> IF d[i].key = k THEN [key |-> k, value |-> v] ELSE d[i]]
    ELSE Append(d, [key |-> k, value |-> v])

\* line 168: `if links:`
KeepsAny(links) == TRUE

Keeps(links) == links # <<>>

\* what one section raises, if anything (lines 156, 160, 162)
SectionExc(page, i) ==
    IF page[i].h2 = None
    THEN Exc("AttributeError", 0, "'NoneType' object has no attribute 'get_text'")
    ELSE IF FindNextCenter(page, i) = 0
         THEN Exc("AttributeError", 0, "'NoneType' object has no attribute 'select'")
         ELSE IF \E b \in 1..Len(page[FindNextCenter(page, i)].buttons) :
                     ~page[FindNextCenter(page, i)].buttons[b].hasHref
              THEN Exc("KeyError", 0, "'href'")
              ELSE Exc("none", 0, "none")

\* the links one section yields
SectionLinks(page, i) == LinksOf(page[FindNextCenter(page, i)].buttons)

\* lines 155-169: the loop over the quality sections, from section i on
RECURSIVE SectionLoop(_, _, _)
SectionLoop(page, i, d) ==
    IF i > Len(page) THEN Returned(d)
    ELSE IF SectionExc(page, i).type # "none" THEN Raised(SectionExc(page, i))
         ELSE SectionLoop(page, i + 1,
                  IF Keeps(SectionLinks(page, i))
                  THEN DictSet(d, page[i].h2, SectionLinks(page, i))
                  ELSE d)

get_final_download_links(resp) ==
    IF ~resp.ok THEN Raised(ExceptException(HTTPStatusError))
    ELSE LET r == SectionLoop(resp.page, 1, <<>>)
         IN  IF r.raised THEN Raised(ExceptException(r.exc))
             ELSE IF r.value = <<>>
                  THEN Raised(ExceptException(HTTPException(404, "No download links found")))
                  ELSE r

-----------------------------------------------------------------------------
(* search_and_get_all_links: the pure parts                                *)

\* line 215
RECURSIVE UrlsOf(_)
UrlsOf(links) == IF links = <<>> THEN <<>> ELSE <<Head(links).url>> \o UrlsOf(Tail(links))

\* lines 213-219
RECURSIVE FormatLinks(_)
FormatLinks(d) ==
    IF d = <<>> THEN <<>>
    ELSE <<[quality |-> Head(d).key, links |-> UrlsOf(Head(d).value)]>> \o FormatLinks(Tail(d))

\* lines 222-228
AggregatedMovie(movie, d) ==
    [title |-> movie.title, year |-> movie.year, type |-> movie.type,
     poster |-> movie.thumbnail, downloadLink |-> FormatLinks(d)]

PrependMovie(results, m) == <<m>> \o results

AppendMovie(results, m) == Append(results, m)

\* line 230: `except HTTPException`
PerMovieExcept404(e) == e.type = "HTTPException" /\ e.status_code = 404

PerMovieExcept(e) == e.type = "HTTPException"

\* lines 196-199: the next movie of the loop after position i that has a
\* URL; 0 when the loop is over
NextMovie(results, i) ==
    IF \E j \in (i + 1)..Len(results) : results[j].url # <<>>
    THEN Min({j \in (i + 1)..Len(results) : results[j].url # <<>>})
    ELSE 0

-----------------------------------------------------------------------------
(* The request.                                                            *)

NoResponse == [status |-> 0, body |-> <<>>]

EmptyDetail == [rows |-> <<>>, fallback |-> NoButton]

\* pc: "search", "detail", "inter", "final" stand before the client.get of the
\* listing, movie, intermediate and final page; Await(step) is the coroutine
\* suspended in that call; "done" is after the response.
NoAwait(step) == step

Await(step) == step \o "_wait"

FirstStep(ep) ==
    CASE ep = "search" -> "search"
      [] ep = "download-links" -> "detail"
      [] ep = "final-links" -> "final"
      [] ep = "src" -> "search"

InitOf(ep) ==
    /\ endpoint = ep
    /\ pc = FirstStep(ep)
    /\ inflight = 0
    /\ fetchLog = <<>>
    /\ search_soup = <<>>
    /\ search_raised = FALSE
    /\ search_results = <<>>
    /\ idx = 0
    /\ final_results = <<>>
    /\ outcomes = <<>>
    /\ detail_soup = EmptyDetail
    /\ best_link = <<>>
    /\ selected_block = <<>>
    /\ consulted = FALSE
    /\ final_page_url = <<>>
    /\ final_soup = <<>>
    /\ last_fetch_ok = FALSE
    /\ response = NoResponse

Init == \E ep \in {"search", "download-links", "final-links"} : InitOf(ep)

InitSrc == InitOf("src")

\* `await client.get(...)`: the fetch starts and the coroutine is suspended
StartFetch(step) ==
    /\ pc = step
    /\ pc' = Await(step)
    /\ inflight' = inflight + 1
    /\ fetchLog' = Append(fetchLog, [kind |-> step, movie |-> idx])
    /\ UNCHANGED <<endpoint, search_soup, search_raised, search_results, idx,
                   final_results, outcomes, detail_soup,
                   best_link, selected_block, consulted, final_page_url, final_soup,
                   last_fetch_ok, response>>

\* the frames of get_download_links and get_final_download_links are gone
CalleeReturned ==
    /\ detail_soup' = EmptyDetail
    /\ best_link' = <<>>
    /\ selected_block' = <<>>
    /\ consulted' = FALSE
    /\ final_soup' = <<>>

\* search_and_get_all_links, lines 196-239: the loop goes on after position i
\* with final_results fr, up to its next await or to the response
Resume(results, i, fr, oc) ==
    /\ final_results' = fr
    /\ outcomes' = oc
    /\ final_page_url' = <<>>
    /\ IF NextMovie(results, i) = 0
       THEN /\ pc' = "done"
            /\ idx' = i
            /\ response' = [status |-> 200,
                            body |-> [ok |-> TRUE, developer |-> "Mahir Labib",
                                      results |-> fr]]
       ELSE /\ pc' = "detail"
            /\ idx' = NextMovie(results, i)
            /\ response' = response

\* search_and_get_all_links: get_download_links or get_final_download_links
\* raised e for the movie at idx
MovieRaised(e) ==
    /\ CalleeReturned
    /\ search_results' = search_results
    /\ IF PerMovieExcept(e)
       THEN Resume(search_results, idx, final_results,
                   [outcomes EXCEPT ![idx] = "failed"])
       ELSE /\ pc' = "done"
            /\ response' = ErrorResponse(ExceptException(e))
            /\ UNCHANGED <<idx, final_results, outcomes, final_page_url>>

\* the handler of an atomic route ends: e is what it raised, v what it returned
Respond(r) ==
    /\ pc' = "done"
    /\ response' = IF r.raised THEN ErrorResponse(r.exc)
                   ELSE [status |-> 200, body |-> r.value]

SearchFetch == StartFetch("search")

SearchDone ==
    /\ pc = Await("search")
    /\ \E resp \in SearchResponses :
          LET r == search_movies(resp)
          IN  /\ last_fetch_ok' = resp.ok
              /\ search_raised' = r.raised
              /\ search_soup' = IF endpoint = "search" /\ resp.ok THEN resp.page ELSE <<>>
              /\ IF endpoint = "search"
                 THEN /\ Respond(r)
                      /\ UNCHANGED <<search_results, idx, final_results, outcomes,
                                     final_page_url>>
                 ELSE IF r.raised
                      THEN /\ pc' = "done"
                           /\ response' = ErrorResponse(ExceptException(r.exc))
                           /\ UNCHANGED <<search_results, idx, final_results, outcomes,
                                          final_page_url>>
                      ELSE /\ search_results' = r.value.results
                           /\ IF r.value.results = <<>>
                              THEN /\ pc' = "done"
                                   /\ response' =
                                        [status |-> 200,
                                         body |-> [ok |-> TRUE,
                                                   developer |-> "Tofazzal Hossain",
                                                   results |-> <<>>]]
                                   /\ UNCHANGED <<idx, final_results, outcomes,
                                                  final_page_url>>
                              ELSE Resume(r.value.results, 0, <<>>,
                                          [j \in 1..Len(r.value.results) |->
                                              IF r.value.results[j].url = <<>>
                                              THEN "skipped" ELSE "pending"])
    /\ inflight' = inflight - 1
    /\ UNCHANGED <<endpoint, fetchLog, detail_soup, best_link, selected_block, consulted,
                   final_soup>>

DetailFetch == StartFetch("detail")

DetailDone ==
    /\ pc = Await("detail")
    /\ \E resp \in DetailResponses :
          LET r == select_link(resp)
          IN  /\ last_fetch_ok' = resp.ok
              /\ IF r.raised
                 THEN IF endpoint = "src"
                      THEN MovieRaised(r.exc)
                      ELSE /\ Respond(r)
                           /\ detail_soup' = IF resp.ok THEN resp.page ELSE EmptyDetail
                           /\ consulted' = resp.ok
                           /\ UNCHANGED <<search_results, idx, final_results, outcomes,
                                          best_link, selected_block, final_page_url,
                                          final_soup>>
                 ELSE /\ pc' = "inter"
                      /\ detail_soup' = resp.page
                      /\ best_link' = r.value.best_link
                      /\ selected_block' = r.value.selected_block
                      /\ consulted' = r.value.consulted
                      /\ UNCHANGED <<search_results, idx, final_results, outcomes,
                                     final_page_url, final_soup, response>>
    /\ inflight' = inflight - 1
    /\ UNCHANGED <<endpoint, fetchLog, search_soup, search_raised>>

InterFetch == StartFetch("inter")

InterDone ==
    /\ pc = Await("inter")
    /\ \E resp \in InterResponses :
          LET r == resolve_final(resp, best_link, selected_block)
          IN  /\ last_fetch_ok' = resp.ok
              /\ IF endpoint = "src"
                 THEN IF r.raised
                      THEN MovieRaised(r.exc)
                      ELSE /\ CalleeReturned
                           /\ pc' = "final"
                           /\ final_page_url' = r.value.final_page_url
                           /\ UNCHANGED <<search_results, idx, final_results, outcomes,
                                          response>>
                 ELSE /\ Respond(r)
                      /\ UNCHANGED <<search_results, idx, final_results, outcomes,
                                     detail_soup, best_link, selected_block, consulted,
                                     final_page_url, final_soup>>
    /\ inflight' = inflight - 1
    /\ UNCHANGED <<endpoint, fetchLog, search_soup, search_raised>>

FinalFetch == StartFetch("final")

FinalDone ==
    /\ pc = Await("final")
    /\ \E resp \in FinalResponses :
          LET r == get_final_download_links(resp)
          IN  /\ last_fetch_ok' = resp.ok
              /\ IF endpoint = "src"
                 THEN IF r.raised
                      THEN MovieRaised(r.exc)
                      ELSE /\ CalleeReturned
                           /\ search_results' = search_results
                           /\ Resume(search_results, idx,
                                     AppendMovie(final_results,
                                         AggregatedMovie(search_results[idx], r.value)),
                                     [outcomes EXCEPT ![idx] = "ok"])
                 ELSE /\ Respond(r)
                      /\ final_soup' = IF resp.ok THEN resp.page ELSE <<>>
                      /\ UNCHANGED <<search_results, idx, final_results, outcomes,
                                     detail_soup, best_link, selected_block, consulted,
                                     final_page_url>>
    /\ inflight' = inflight - 1
    /\ UNCHANGED <<endpoint, fetchLog, search_soup, search_raised>>

Next ==
    \/ SearchFetch
    \/ SearchDone
    \/ DetailFetch
    \/ DetailDone
    \/ InterFetch
    \/ InterDone
    \/ FinalFetch
    \/ FinalDone

Spec == Init /\ [][Next]_vars

SpecSrc == InitSrc /\ [][Next]_vars

-----------------------------------------------------------------------------
(* Properties.  Expected texts are written out, not computed with the      *)
(* operators of the model.                                                 *)

Done(ep) == endpoint = ep /\ pc = "done"

\* the k-th smallest element of a set of numbers
Kth(S, k) == CHOOSE x \in S : Cardinality({y \in S : y <= x}) = k

\* the first integer embedded in a label of Labels, 0 if it has none
FirstInteger(label) ==
    CASE label = L1080 -> 1080
      [] label = L720 -> 720
      [] label = L4K -> 4
      [] OTHER -> 0

\* the rows of the fetched movie page that have an anchor to '/links/'
LinkRows ==
    {i \in 1..Len(detail_soup.rows) :
        /\ Len(detail_soup.rows[i].href) = 3
        /\ detail_soup.rows[i].href[2] = "links"}

\* the earliest of the rows of maximal numeric quality among LinkRows
BestRow ==
    CHOOSE i \in LinkRows :
        \A j \in LinkRows :
            \/ FirstInteger(detail_soup.rows[i].qua) > FirstInteger(detail_soup.rows[j].qua)
            \/ /\ FirstInteger(detail_soup.rows[i].qua) = FirstInteger(detail_soup.rows[j].qua)
               /\ i <= j

\* C1: /api/download-links answers 404 when a successfully fetched page has no
\* link or no final URL, and 500 only when a fetch failed.
C1_NotFoundIs404 ==
    Done("download-links") =>
        IF last_fetch_ok THEN response.status \in {200, 404} ELSE response.status = 500

\* the sections of the fetched final page that yield at least one link
Yielding ==
    {i \in 1..Len(final_soup) :
        /\ FindNextCenter(final_soup, i) # 0
        /\ final_soup[FindNextCenter(final_soup, i)].buttons # <<>>}

\* C2: /api/final-links answers 404 when the final page was fetched and no
\* quality section yields a link, and never 200 with an empty mapping.
C2_NoLinksIs404 ==
    Done("final-links") =>
        /\ (last_fetch_ok /\ Yielding = {}) => response.status = 404
        /\ response.status = 200 => response.body # <<>>

\* the movies of search_results that went through both steps
Succeeded == {j \in 1..Len(outcomes) : outcomes[j] = "ok"}

\* C3: the results of /api/src are the movies for which both steps succeeded,
\* one entry each, in search order, and every movie has been attempted.
C3_Subsequence ==
    (Done("src") /\ ~search_raised /\ search_results # <<>>) =>
        /\ response.status = 200
        /\ \A j \in 1..Len(outcomes) : outcomes[j] # "pending"
        /\ Len(response.body.results) = Cardinality(Succeeded)
        /\ \A k \in 1..Len(response.body.results) :
              LET m == search_results[Kth(Succeeded, k)]
                  a == response.body.results[k]
              IN  /\ a.title = m.title
                  /\ a.year = m.year
                  /\ a.type = m.type
                  /\ a.poster = m.thumbnail
                  /\ a.downloadLink # <<>>

\* three results, the second of which failed
C3_Witness ==
    /\ Done("src")
    /\ outcomes = <<"ok", "failed", "ok">>
    /\ Len(response.body.results) = 2

\* C4: /api/src answers 500 exactly when the search itself fails; otherwise it
\* answers ok=true whatever the movies did, and without any further fetch when
\* the search found nothing.
C4_OnlySearchFails ==
    Done("src") =>
        /\ response.status = 500 <=> search_raised
        /\ ~search_raised => /\ response.status = 200
                             /\ response.body.ok
        /\ (~search_raised /\ search_results = <<>>) =>
               /\ response.body.results = <<>>
               /\ Len(fetchLog) = 1

\* every movie failed and the answer is still a success
C4_Witness ==
    /\ Done("src")
    /\ Len(outcomes) >= 2
    /\ \A j \in 1..Len(outcomes) : outcomes[j] = "failed"
    /\ response.status = 200
    /\ response.body.results = <<>>

\* C5: when some row has a '/links/' anchor, the link selected is that of the
\* earliest row of maximal numeric quality among the rows that have one.
C5_BestRow ==
    (endpoint = "download-links" /\ LinkRows # {}) =>
        /\ pc \in {"inter", "inter_wait", "done"}
        /\ best_link = detail_soup.rows[BestRow].href
        /\ selected_block = <<detail_soup.rows[BestRow]>>

\* a 1080p row without link precedes a 720p row with one, which is selected
C5_Witness ==
    /\ endpoint = "download-links"
    /\ Len(detail_soup.rows) = 2
    /\ detail_soup.rows[1].qua = L1080
    /\ detail_soup.rows[1].href = <<>>
    /\ detail_soup.rows[2].qua = L720
    /\ best_link = LinkHref(2)

\* the display texts of the cells of RowsAt
QualityShown(row) ==
    CASE row.qua = L1080 -> <<"1", "0", "8", "0", "p">>
      [] row.qua = L720 -> <<"7", "2", "0", "p">>
      [] row.qua = L4K -> <<"4", "K", " ", "2", "1", "6", "0", "p">>
      [] row.qua = LHD -> <<"H", "D">>
      [] OTHER -> Unknown

SizeShown(row) == IF row.siz = <<>> THEN Unknown ELSE <<"1", ".", "2", "G", "B">>

LanguageShown(row) == IF row.lan = <<>> THEN Unknown ELSE <<"H", "i", "n", "d", "i">>

\* C7: the fallback is consulted only when no row yielded a link; its link is
\* returned verbatim with all three fields "Unknown"; otherwise each field
\* comes from the selected row and defaults to "Unknown" on its own.
C7_FallbackAndInfo ==
    endpoint = "download-links" =>
        /\ consulted => LinkRows = {}
        /\ (pc = "done" /\ response.status = 200) =>
              LET info == response.body.selected_quality_info
              IN  IF consulted
                  THEN /\ response.body.intermediate_page_url = detail_soup.fallback.href
                       /\ info = [quality |-> Unknown, size |-> Unknown,
                                  language |-> Unknown]
                  ELSE /\ response.body.intermediate_page_url = detail_soup.rows[BestRow].href
                       /\ info.quality = QualityShown(detail_soup.rows[BestRow])
                       /\ info.size = SizeShown(detail_soup.rows[BestRow])
                       /\ info.language = LanguageShown(detail_soup.rows[BestRow])

\* a row supplied the link; its size is unknown, its language is not
C7_Witness ==
    /\ Done("download-links")
    /\ response.status = 200
    /\ ~consulted
    /\ response.body.selected_quality_info.size = Unknown
    /\ response.body.selected_quality_info.language # Unknown
    /\ response.body.selected_quality_info.quality # Unknown

\* the labels of the sections that yield a link
YieldingLabels == {final_soup[i].h2 : i \in Yielding}

\* the first and the last section of label l that yield a link
FirstYield(l) == Min({i \in Yielding : final_soup[i].h2 = l})
LastYield(l) == -Min({-i : i \in {j \in Yielding : final_soup[j].h2 = l}})

\* the first section of label l
FirstSeen(l) == Min({i \in 1..Len(final_soup) : final_soup[i].h2 = l})

\* the links of the buttons of the center that section i reaches, in
\* document order
ButtonLinks(i) ==
    LET bs == final_soup[FindNextCenter(final_soup, i)].buttons
    IN  [b \in 1..Len(bs) |-> [provider |-> bs[b].provider, url |-> bs[b].href]]

\* the entries of a mapping stand for exactly the labels that yield a link,
\* once each, none with an empty list, each with the buttons of one of its
\* sections in document order
EntriesOK(d) ==
    /\ {d[k].key : k \in 1..Len(d)} = YieldingLabels
    /\ \A a, b \in 1..Len(d) : d[a].key = d[b].key => a = b
    /\ \A k \in 1..Len(d) :
          /\ d[k].value # <<>>
          /\ \E i \in Yielding : final_soup[i].h2 = d[k].key /\ d[k].value = ButtonLinks(i)

\* C8 as stated: the entries are those of the labels that yield a link and
\* stand in the order in which their labels first appear on the page.
C8_FirstSeenOrder ==
    (Done("final-links") /\ response.status = 200) =>
        /\ EntriesOK(response.body)
        /\ \A a, b \in 1..Len(response.body) :
              a < b => FirstSeen(response.body[a].key) < FirstSeen(response.body[b].key)

\* C8 amended: the entries stand in the order of the first section of each
\* label that yields a link.
C8_FirstYieldOrder ==
    (Done("final-links") /\ response.status = 200) =>
        /\ EntriesOK(response.body)
        /\ \A a, b \in 1..Len(response.body) :
              a < b => FirstYield(response.body[a].key) < FirstYield(response.body[b].key)

\* a label first seen on a section without links yields links later, after
\* another label did
C8_Witness ==
    /\ Done("final-links")
    /\ response.status = 200
    /\ Len(response.body) = 2
    /\ FirstSeen(response.body[2].key) < FirstSeen(response.body[1].key)

\* the fetches of a request to /api/src, as the spec orders them
LogOrdered ==
    \A k \in 1..Len(fetchLog) :
        IF k = 1 THEN fetchLog[k] = [kind |-> "search", movie |-> 0]
        ELSE LET cur == fetchLog[k]
                 prev == fetchLog[k - 1]
             IN  CASE cur.kind = "detail" -> cur.movie > prev.movie
                   [] cur.kind = "inter" -> prev = [kind |-> "detail", movie |-> cur.movie]
                   [] cur.kind = "final" -> prev = [kind |-> "inter", movie |-> cur.movie]
                   [] OTHER -> FALSE

\* C9: one fetch at a time, in the order search, then per movie detail,
\* intermediate, final; each step only after the one before it succeeded, and
\* no movie before the chain of the movie before it has ended.
C9_Sequential ==
    endpoint = "src" =>
        /\ inflight \in {0, 1}
        /\ inflight = 1 <=> pc \in {"search_wait", "detail_wait", "inter_wait", "final_wait"}
        /\ LogOrdered
        /\ pc \in {"inter", "inter_wait"} => last_fetch_ok /\ best_link # <<>>
        /\ pc \in {"final", "final_wait"} =>
              last_fetch_ok /\ final_page_url[1] = "linkedmoviehub.top"
        /\ pc \in {"detail", "detail_wait", "inter", "inter_wait", "final", "final_wait"} =>
              /\ outcomes[idx] = "pending"
              /\ fetchLog[Len(fetchLog)].movie <= idx
              /\ \A j \in 1..(idx - 1) : outcomes[j] # "pending"

\* the final page of a second movie is being fetched after the first failed
C9_Witness ==
    /\ endpoint = "src"
    /\ pc = "final_wait"
    /\ inflight = 1
    /\ idx = 2
    /\ outcomes[1] = "failed"
    /\ Len(fetchLog) >= 5

WithAnchor == SelectSeq(search_soup, LAMBDA it : it.anchor # "none")

\* C6: /api/search returns one result per container that has a title anchor,
\* in document order, with a placeholder for every missing optional field,
\* and a missing optional field never makes the request fail.
C6_PlaceholdersNeverFail ==
    (Done("search") /\ last_fetch_ok
        /\ \A i \in 1..Len(search_soup) : search_soup[i].anchor # "nohref") =>
        /\ response.status = 200
        /\ Len(response.body.results) = Len(WithAnchor)
        /\ \A k \in 1..Len(WithAnchor) :
              LET it == WithAnchor[k]
                  res == response.body.results[k]
              IN  /\ res.title = it.title
                  /\ res.url = it.href
                  /\ res.year = (IF it.year = None THEN "N/A" ELSE it.year)
                  /\ res.type = (IF it.type = None THEN "Unknown" ELSE it.type)
                  /\ res.description = (IF it.desc = None THEN "" ELSE it.desc)
                  /\ res.thumbnail = (IF it.img = "src" THEN it.src ELSE "")

====
